---- MODULE Spec2Model ----
(***************************************************************************)
(* SimpleBlog: the REST API of blog/api (models.py, serializers.py,        *)
(* views.py, urls.py) as a state machine over the entity store.            *)
(*                                                                         *)
(* The store is the two tables (posts, comments) plus the two primary-key  *)
(* sequences and the wall clock the auto_now / auto_now_add fields read.   *)
(* Every route of urls.py is one action; `last` records the route the      *)
(* action served, the keys of its URL and the HTTP status it answered      *)
(* with (the body of the request is the action's parameter).  A request or *)
(* validated-data dictionary is a function whose DOMAIN is the set of keys *)
(* it carries, so "the field is absent" and "the field is blank" differ.   *)
(* Rows carry created_at; updated_at (auto_now), which no route reads or   *)
(* filters on, is left out of the rows.  Primary keys come from sequences  *)
(* that never reissue a key.                                               *)
(*                                                                         *)
(* Spec is the API: every route.  SpecMerge is the writing routes together *)
(* with PostSerializer.update called on a validated_data that carries      *)
(* comments, which no route passes it (comments is a read_only field).     *)
(***************************************************************************)
EXTENDS Integers, Sequences, FiniteSets, TLC

VARIABLES posts, comments, nextPostId, nextCommentId, now, last

vars == <<posts, comments, nextPostId, nextCommentId, now, last>>

-----------------------------------------------------------------------------
(* Bounds of the model *)

\* posts created over a run (primary keys 1..MaxPosts)
MaxPosts == 2
\* comments created over a run (primary keys 1..MaxComments)
MaxComments == 2
\* ticks of the wall clock over a run
MaxTime == 1
\* length of a submitted nested comments list
MaxList == 2

(* Program constants *)

\* models.py: Post.title = CharField(max_length=100)
TitleMaxLength == 100
\* models.py: Comment.author = CharField(max_length=50)
AuthorMaxLength == 50

-----------------------------------------------------------------------------
(* Request inputs *)

RECURSIVE Rep(_)
Rep(n) == IF n = 0 THEN "" ELSE "a" \o Rep(n - 1)

\* primary keys a URL or a body can name (stored, deleted or never created)
PostPks == 1 .. MaxPosts
CommentPks == 1 .. MaxComments

Titles == {"A", "T", Rep(TitleMaxLength + 1)}
PostContents == {"B"}
Authors == {"x", "y", Rep(AuthorMaxLength + 1)}
CommentContents == {"hi"}

\* a dictionary with no key
Empty == <<>>

Opt(key, values) == {Empty} \cup {[k \in {key} |-> v] : v \in values}

\* one element of a nested comments list: an optional id and submitted fields
CommentData ==
    {i @@ a : i \in Opt("id", CommentPks),
              a \in {[author |-> "y", content |-> "yo"]}}

CommentLists == UNION {[1 .. n -> CommentData] : n \in 0 .. MaxList}

\* JSON bodies of POST /posts/
PostCreateBodies ==
    {t @@ c : t \in Opt("title", Titles), c \in Opt("content", PostContents)}

\* JSON bodies of PUT/PATCH /posts/{pk}/: with no comments key, or with a
\* comments list of at most one element
PostBodies ==
    {b @@ cm : b \in PostCreateBodies,
               cm \in Opt("comments", {l \in CommentLists : Len(l) <= 1})}

\* validated_data dictionaries PostSerializer.update can be called with
PostValidatedData ==
    {t @@ cm : t \in Opt("title", {"A", "T"}),
               cm \in Opt("comments", CommentLists)}

\* JSON bodies of the comment routes
CommentBodies ==
    {p @@ a @@ c : p \in Opt("post", PostPks),
                   a \in Opt("author", Authors),
                   c \in Opt("content", CommentContents)}

Restrict(f, keys) == [k \in (DOMAIN f) \cap keys |-> f[k]]

-----------------------------------------------------------------------------
(* models.py *)

\* Post row: title, content, created_at (auto_now_add)
PostRow(title, content, t) ==
    [title |-> title, content |-> content, created_at |-> t]

\* Comment row: post (ForeignKey), author, content, created_at (auto_now_add)
CommentRow(post, author, content, t) ==
    [post |-> post, author |-> author, content |-> content, created_at |-> t]

\* Model.save() of a loaded row after setattr of the given fields;
\* created_at is set on insert only
SaveRow(row, data) ==
    [k \in DOMAIN row |-> IF k \in DOMAIN data THEN data[k] ELSE row[k]]

\* ForeignKey(Post, on_delete=CASCADE): the comments left after post p is deleted
CascadeDeleteNone(cs, p) == cs

CascadeDelete(cs, p) ==
    [c \in {d \in DOMAIN cs : cs[d].post # p} |-> cs[c]]

\* Comment.objects.create(post=instance, **comment_data); a field not given
\* takes the column default, the empty string
CommentObjectsCreate(p, data, t) ==
    CommentRow(p,
               IF "author" \in DOMAIN data THEN data.author ELSE "",
               IF "content" \in DOMAIN data THEN data.content ELSE "",
               t)

-----------------------------------------------------------------------------
(* serializers.py *)

\* CharField / TextField validation: not blank, within max_length (0: none)
ValidText(v, maxLength) ==
    v # "" /\ (maxLength = 0 \/ Len(v) <= maxLength)

\* the fields of PostSerializer a request can write: comments is read_only,
\* id and the timestamps are read-only model fields
PostWritableFields == {"title", "content"}

\* PostSerializer.is_valid(): every writable field is required unless partial
PostSerializerIsValid(body, partial) ==
    /\ partial \/ PostWritableFields \subseteq DOMAIN body
    /\ "title" \in DOMAIN body => ValidText(body.title, TitleMaxLength)
    /\ "content" \in DOMAIN body => ValidText(body.content, 0)

\* PostSerializer.validated_data: read-only fields never reach it
PostSerializerValidatedData(body) == Restrict(body, PostWritableFields)

\* the fields of CommentSerializer (fields = "__all__") a request can write
CommentWritableFields == {"post", "author", "content"}

\* (mutant) the post field taken as a bare integer, not looked up
CommentSerializerIsValidNoLookup(ps, body, partial) ==
    /\ partial \/ CommentWritableFields \subseteq DOMAIN body
    /\ "author" \in DOMAIN body => ValidText(body.author, AuthorMaxLength)
    /\ "content" \in DOMAIN body => ValidText(body.content, 0)

\* CommentSerializer.is_valid(): post is a required primary key of a stored post
CommentSerializerIsValid(ps, body, partial) ==
    /\ partial \/ CommentWritableFields \subseteq DOMAIN body
    /\ "post" \in DOMAIN body => body.post \in DOMAIN ps
    /\ "author" \in DOMAIN body => ValidText(body.author, AuthorMaxLength)
    /\ "content" \in DOMAIN body => ValidText(body.content, 0)

CommentSerializerValidatedData(body) == Restrict(body, CommentWritableFields)

\* the loop of PostSerializer.update from element i on: an element with an
\* id is looked up under the post and saved with the submitted fields
\* (Comment.DoesNotExist ends the loop, `raised` is the element's index), an
\* element without id is created under the post; each save or create is a
\* write of its own, nothing is rolled back
RECURSIVE MergeComments(_, _, _, _, _, _)
MergeComments(cs, ncid, t, p, list, i) ==
    IF i > Len(list)
    THEN [comments |-> cs, nextCommentId |-> ncid, raised |-> 0]
    ELSE LET d == list[i] IN
         IF "id" \in DOMAIN d
         THEN IF d.id \in DOMAIN cs /\ cs[d.id].post = p
              THEN MergeComments([cs EXCEPT ![d.id] = SaveRow(@, d)],
                                 ncid, t, p, list, i + 1)
              ELSE [comments |-> cs, nextCommentId |-> ncid, raised |-> i]
         ELSE MergeComments(cs @@ (ncid :> CommentObjectsCreate(p, d, t)),
                            ncid + 1, t, p, list, i + 1)

\* ids named by the elements of a nested list
SubmittedIds(list) ==
    {list[i].id : i \in {j \in DOMAIN list : "id" \in DOMAIN list[j]}}

\* (mutant) the list replaces the post's comments: those it does not name go
PostSerializerUpdateReplaceAll(ps, cs, ncid, t, p, data) ==
    LET saved == [ps EXCEPT ![p] = SaveRow(@, Restrict(data, PostWritableFields))]
        list == IF "comments" \in DOMAIN data THEN data.comments ELSE <<>>
        kept == [c \in {d \in DOMAIN cs : cs[d].post = p => d \in SubmittedIds(list)}
                    |-> cs[c]]
        merged == MergeComments(kept, ncid, t, p, list, 1)
    IN  [posts |-> saved, comments |-> merged.comments,
         nextCommentId |-> merged.nextCommentId, raised |-> merged.raised]

\* (mutant) the whole update in one transaction, rolled back when a lookup raises
PostSerializerUpdateAtomic(ps, cs, ncid, t, p, data) ==
    LET saved == [ps EXCEPT ![p] = SaveRow(@, Restrict(data, PostWritableFields))]
        merged == IF "comments" \in DOMAIN data
                  THEN MergeComments(cs, ncid, t, p, data.comments, 1)
                  ELSE [comments |-> cs, nextCommentId |-> ncid, raised |-> 0]
    IN  IF merged.raised = 0
        THEN [posts |-> saved, comments |-> merged.comments,
              nextCommentId |-> merged.nextCommentId, raised |-> 0]
        ELSE [posts |-> ps, comments |-> cs, nextCommentId |-> ncid,
              raised |-> merged.raised]

\* PostSerializer.update(instance, validated_data) on stored post p: the
\* store it leaves and the index of the element whose lookup raised (0: none)
PostSerializerUpdate(ps, cs, ncid, t, p, data) ==
    LET saved == [ps EXCEPT ![p] = SaveRow(@, Restrict(data, PostWritableFields))]
        merged == IF "comments" \in DOMAIN data
                  THEN MergeComments(cs, ncid, t, p, data.comments, 1)
                  ELSE [comments |-> cs, nextCommentId |-> ncid, raised |-> 0]
    IN  [posts |-> saved, comments |-> merged.comments,
         nextCommentId |-> merged.nextCommentId, raised |-> merged.raised]

\* comments a nested list creates (elements without id)
NewCount(list) == Cardinality({i \in DOMAIN list : "id" \notin DOMAIN list[i]})

-----------------------------------------------------------------------------
(* views.py *)

\* CommentListCreateAPIView / CommentRetrieveUpdateDestroyAPIView.get_queryset:
\* Comment.objects.filter(post_id=post_pk)
CommentQueryset(cs, post_pk) == {c \in DOMAIN cs : cs[c].post = post_pk}

\* order_by("-created_at"): the orders the database may return the rows in
\* (rows of equal created_at come in any order)
OrderByCreatedAtAsc(cs, ids) ==
    {s \in [1 .. Cardinality(ids) -> ids] :
        /\ \A i, j \in DOMAIN s : i # j => s[i] # s[j]
        /\ \A i, j \in DOMAIN s :
              i < j => cs[s[i]].created_at <= cs[s[j]].created_at}

OrderByCreatedAtDesc(cs, ids) ==
    {s \in [1 .. Cardinality(ids) -> ids] :
        /\ \A i, j \in DOMAIN s : i # j => s[i] # s[j]
        /\ \A i, j \in DOMAIN s :
              i < j => cs[s[i]].created_at >= cs[s[j]].created_at}

Methods == {"PUT", "PATCH"}

NoRequest == [op |-> "none", status |-> 0]

Init ==
    /\ posts = Empty
    /\ comments = Empty
    /\ nextPostId = 1
    /\ nextCommentId = 1
    /\ now = 0
    /\ last = NoRequest

\* the wall clock advances between requests
Tick ==
    /\ now < MaxTime
    /\ now' = now + 1
    /\ UNCHANGED <<posts, comments, nextPostId, nextCommentId, last>>

\* GET /posts/ : PostListCreateAPIView.list
PostList ==
    /\ last' = [op |-> "PostList", status |-> 200]
    /\ UNCHANGED <<posts, comments, nextPostId, nextCommentId, now>>

\* POST /posts/ : PostListCreateAPIView.create
PostCreate(body) ==
    IF PostSerializerIsValid(body, FALSE)
    THEN /\ nextPostId <= MaxPosts
         /\ posts' = posts @@ (nextPostId :> PostRow(body.title, body.content, now))
         /\ nextPostId' = nextPostId + 1
         /\ last' = [op |-> "PostCreate", status |-> 201]
         /\ UNCHANGED <<comments, nextCommentId, now>>
    ELSE /\ last' = [op |-> "PostCreate", status |-> 400]
         /\ UNCHANGED <<posts, comments, nextPostId, nextCommentId, now>>

\* GET /posts/{pk}/ : PostRetrieveUpdateDestroyAPIView.retrieve
PostRetrieveStatus(ps, pk) == IF pk \in DOMAIN ps THEN 200 ELSE 404

PostRetrieve(pk) ==
    /\ last' = [op |-> "PostRetrieve", pk |-> pk,
                status |-> PostRetrieveStatus(posts, pk)]
    /\ UNCHANGED <<posts, comments, nextPostId, nextCommentId, now>>

\* PUT/PATCH /posts/{pk}/ : PostRetrieveUpdateDestroyAPIView.update
\* get_object (404), is_valid (400), serializer.save() -> PostSerializer.update
PostUpdate(pk, method, body) ==
    LET req == [op |-> "PostUpdate", pk |-> pk]
    IN
    IF pk \notin DOMAIN posts
    THEN /\ last' = req @@ [status |-> 404]
         /\ UNCHANGED <<posts, comments, nextPostId, nextCommentId, now>>
    ELSE IF ~PostSerializerIsValid(body, method = "PATCH")
    THEN /\ last' = req @@ [status |-> 400]
         /\ UNCHANGED <<posts, comments, nextPostId, nextCommentId, now>>
    ELSE LET r == PostSerializerUpdate(posts, comments, nextCommentId, now, pk,
                                       PostSerializerValidatedData(body))
         IN  /\ r.nextCommentId <= MaxComments + 1
             /\ posts' = r.posts
             /\ comments' = r.comments
             /\ nextCommentId' = r.nextCommentId
             /\ last' = req @@ [status |-> IF r.raised = 0 THEN 200 ELSE 500]
             /\ UNCHANGED <<nextPostId, now>>

\* DELETE /posts/{pk}/ : PostRetrieveUpdateDestroyAPIView.destroy
PostDestroy(pk) ==
    IF pk \notin DOMAIN posts
    THEN /\ last' = [op |-> "PostDestroy", pk |-> pk, status |-> 404]
         /\ UNCHANGED <<posts, comments, nextPostId, nextCommentId, now>>
    ELSE /\ posts' = [q \in DOMAIN posts \ {pk} |-> posts[q]]
         /\ comments' = CascadeDelete(comments, pk)
         /\ last' = [op |-> "PostDestroy", pk |-> pk, status |-> 204]
         /\ UNCHANGED <<nextPostId, nextCommentId, now>>

\* GET /posts/{post_pk}/comments/ : CommentListCreateAPIView.list over
\* get_queryset(); a post_pk that matches no row gives the empty list
CommentList(post_pk) ==
    /\ \E result \in OrderByCreatedAtDesc(comments, CommentQueryset(comments, post_pk)) :
          last' = [op |-> "CommentList", post_pk |-> post_pk, status |-> 200,
                   result |-> result]
    /\ UNCHANGED <<posts, comments, nextPostId, nextCommentId, now>>

\* perform_create: serializer.save(post=post) puts the URL's post over the
\* validated post field
PerformCreateData(post_pk, data) == [post |-> post_pk] @@ data

\* POST /posts/{post_pk}/comments/ : CommentListCreateAPIView.create
\* is_valid (400), then perform_create: get_object_or_404 (404), save (201)
CommentCreate(post_pk, body) ==
    LET req == [op |-> "CommentCreate", post_pk |-> post_pk]
    IN
    IF ~CommentSerializerIsValid(posts, body, FALSE)
    THEN /\ last' = req @@ [status |-> 400]
         /\ UNCHANGED <<posts, comments, nextPostId, nextCommentId, now>>
    ELSE IF post_pk \notin DOMAIN posts
    THEN /\ last' = req @@ [status |-> 404]
         /\ UNCHANGED <<posts, comments, nextPostId, nextCommentId, now>>
    ELSE LET data == PerformCreateData(post_pk, CommentSerializerValidatedData(body))
         IN  /\ nextCommentId <= MaxComments
             /\ comments' = comments @@
                    (nextCommentId :> CommentRow(data.post, data.author, data.content, now))
             /\ nextCommentId' = nextCommentId + 1
             /\ last' = req @@ [status |-> 201]
             /\ UNCHANGED <<posts, nextPostId, now>>

\* get_object() of the comment detail view: the row of key pk in get_queryset()
CommentRetrieveStatus(cs, post_pk, pk) ==
    IF pk \in CommentQueryset(cs, post_pk) THEN 200 ELSE 404

\* GET /posts/{post_pk}/comments/{pk}/ : CommentRetrieveUpdateDestroyAPIView.retrieve
CommentRetrieve(post_pk, pk) ==
    /\ last' = [op |-> "CommentRetrieve", post_pk |-> post_pk, pk |-> pk,
                status |-> CommentRetrieveStatus(comments, post_pk, pk)]
    /\ UNCHANGED <<posts, comments, nextPostId, nextCommentId, now>>

\* PUT/PATCH /posts/{post_pk}/comments/{pk}/ : CommentRetrieveUpdateDestroyAPIView.update
\* get_object (404), is_valid (400), serializer.save() -> ModelSerializer.update
CommentUpdate(post_pk, pk, method, body) ==
    LET req == [op |-> "CommentUpdate", post_pk |-> post_pk, pk |-> pk]
    IN
    IF pk \notin CommentQueryset(comments, post_pk)
    THEN /\ last' = req @@ [status |-> 404]
         /\ UNCHANGED <<posts, comments, nextPostId, nextCommentId, now>>
    ELSE IF ~CommentSerializerIsValid(posts, body, method = "PATCH")
    THEN /\ last' = req @@ [status |-> 400]
         /\ UNCHANGED <<posts, comments, nextPostId, nextCommentId, now>>
    ELSE /\ comments' = [comments EXCEPT
                ![pk] = SaveRow(@, CommentSerializerValidatedData(body))]
         /\ last' = req @@ [status |-> 200]
         /\ UNCHANGED <<posts, nextPostId, nextCommentId, now>>

\* DELETE /posts/{post_pk}/comments/{pk}/ : CommentRetrieveUpdateDestroyAPIView.destroy
CommentDestroy(post_pk, pk) ==
    LET req == [op |-> "CommentDestroy", post_pk |-> post_pk, pk |-> pk]
    IN
    IF pk \notin CommentQueryset(comments, post_pk)
    THEN /\ last' = req @@ [status |-> 404]
         /\ UNCHANGED <<posts, comments, nextPostId, nextCommentId, now>>
    ELSE /\ comments' = [c \in DOMAIN comments \ {pk} |-> comments[c]]
         /\ last' = req @@ [status |-> 204]
         /\ UNCHANGED <<posts, nextPostId, nextCommentId, now>>

\* PostSerializer.update(instance, validated_data) called with a
\* validated_data that carries what the method reads, comments included
SerializerUpdate(pk, data) ==
    /\ pk \in DOMAIN posts
    /\ LET r == PostSerializerUpdate(posts, comments, nextCommentId, now, pk, data)
       IN  /\ r.nextCommentId <= MaxComments + 1
           /\ posts' = r.posts
           /\ comments' = r.comments
           /\ nextCommentId' = r.nextCommentId
           /\ last' = [op |-> "SerializerUpdate", pk |-> pk, data |-> data,
                       raised |-> r.raised]
           /\ UNCHANGED <<nextPostId, now>>

\* urls.py: the routes that write (POST, PUT, PATCH, DELETE)
Write ==
    \/ \E body \in PostCreateBodies : PostCreate(body)
    \/ \E pk \in PostPks, method \in Methods, body \in PostBodies :
          PostUpdate(pk, method, body)
    \/ \E pk \in PostPks : PostDestroy(pk)
    \/ \E post_pk \in PostPks, body \in CommentBodies : CommentCreate(post_pk, body)
    \/ \E post_pk \in PostPks, pk \in CommentPks, method \in Methods,
          body \in CommentBodies : CommentUpdate(post_pk, pk, method, body)
    \/ \E post_pk \in PostPks, pk \in CommentPks : CommentDestroy(post_pk, pk)

\* urls.py: the routes that read (GET)
Read ==
    \/ PostList
    \/ \E pk \in PostPks : PostRetrieve(pk)
    \/ \E post_pk \in PostPks : CommentList(post_pk)
    \/ \E post_pk \in PostPks, pk \in CommentPks : CommentRetrieve(post_pk, pk)

Next == Tick \/ Write \/ Read

Spec == Init /\ [][Next]_vars

\* the writes of the store at one reading of the clock: the writing routes,
\* and PostSerializer.update used as a library call
NextMerge ==
    \/ Write
    \/ \E pk \in PostPks, data \in PostValidatedData : SerializerUpdate(pk, data)

SpecMerge == Init /\ [][NextMerge]_vars

-----------------------------------------------------------------------------
(* Properties *)

\* a step that serves a request of route op (the clock's tick serves none)
Served(op) == now' = now /\ last'.op = op

\* the comments of post p that element i of `list` can name: those stored
\* when the update starts and those the elements before i have created
Visible(p, list, i) ==
    {c \in DOMAIN comments : comments[c].post = p}
        \cup (nextCommentId ..
                (nextCommentId + NewCount(SubSeq(list, 1, i - 1)) - 1))

\* C9: every stored comment references one post that is stored, and
\* identifiers are never shared: every stored row's key was issued by its
\* table's sequence, which has moved past it
C9_CommentsBelongToStoredPosts ==
    /\ \A c \in DOMAIN comments : comments[c].post \in DOMAIN posts
    /\ \A c \in DOMAIN comments : c \in 1 .. (nextCommentId - 1)
    /\ \A q \in DOMAIN posts : q \in 1 .. (nextPostId - 1)

\* a nested merge has created a comment after another post was deleted, and
\* comments are stored
C9_Witness ==
    /\ last.op = "SerializerUpdate"
    /\ last.raised = 0
    /\ "comments" \in DOMAIN last.data
    /\ NewCount(last.data.comments) >= 1
    /\ nextPostId = 3
    /\ Cardinality(DOMAIN posts) = 1
    /\ Cardinality(DOMAIN comments) >= 2

\* C4: DELETE /posts/P/ on a stored post answers 204; afterwards P and each
\* of its comments is not-found on every path, and every other post and every
\* comment of another post is as it was
C4_DeleteCascades ==
    [][Served("PostDestroy") =>
        LET p == last'.pk IN
        /\ last'.status = 204 <=> p \in DOMAIN posts
        /\ last'.status = 204 =>
            /\ PostRetrieveStatus(posts', p) = 404
            /\ \A c \in DOMAIN comments : comments[c].post = p =>
                 /\ c \notin DOMAIN comments'
                 /\ \A q \in PostPks : CommentRetrieveStatus(comments', q, c) = 404
                 /\ \A q \in PostPks : c \notin CommentQueryset(comments', q)
            /\ \A q \in DOMAIN posts \ {p} : q \in DOMAIN posts' /\ posts'[q] = posts[q]
            /\ \A c \in DOMAIN comments : comments[c].post # p =>
                 c \in DOMAIN comments' /\ comments'[c] = comments[c]
    ]_vars

\* a post was deleted whose comments are gone, while another post and its
\* comment are stored
C4_Witness ==
    /\ last.op = "PostDestroy"
    /\ last.status = 204
    /\ nextCommentId = 3
    /\ Cardinality(DOMAIN comments) = 1
    /\ \E q \in DOMAIN posts : \E c \in DOMAIN comments : comments[c].post = q

\* C8: GET /posts/P/comments/ answers 200 with exactly the stored comments of
\* parent P, each once, a comment created later before one created earlier;
\* with no post P stored the list is empty
C8_ListIsPostsCommentsNewestFirst ==
    last.op = "CommentList" =>
        LET r == last.result
            P == last.post_pk
        IN  /\ last.status = 200
            /\ {r[i] : i \in DOMAIN r} = {c \in DOMAIN comments : comments[c].post = P}
            /\ \A i, j \in DOMAIN r : i # j => r[i] # r[j]
            /\ \A i, j \in DOMAIN r :
                 comments[r[i]].created_at > comments[r[j]].created_at => i < j
            /\ P \notin DOMAIN posts => r = <<>>

\* a list of two comments created at different times was returned, the later first
C8_Witness ==
    /\ last.op = "CommentList"
    /\ Len(last.result) = 2
    /\ comments[last.result[1]].created_at > comments[last.result[2]].created_at

\* C3: a post update deletes no comment and leaves every comment its list
\* does not name as it was; without a comments key every comment is as it
\* was.  (Through the route no comment changes, whatever the body names.)
C3_UpdateLeavesOtherComments ==
    [][/\ Served("PostUpdate") => comments' = comments
       /\ Served("SerializerUpdate") =>
            LET data == last'.data IN
            /\ \A c \in DOMAIN comments : c \in DOMAIN comments'
            /\ "comments" \in DOMAIN data =>
                 \A c \in DOMAIN comments :
                    c \notin SubmittedIds(data.comments) => comments'[c] = comments[c]
            /\ "comments" \notin DOMAIN data => comments' = comments
    ]_vars

\* a merge went through that named some comments of the post, or new ones,
\* and a comment of the same post it did not name is stored with the fields
\* its create request gave it
C3_Witness ==
    /\ last.op = "SerializerUpdate"
    /\ last.raised = 0
    /\ "comments" \in DOMAIN last.data
    /\ Len(last.data.comments) >= 1
    /\ \E c \in DOMAIN comments :
          /\ comments[c].post = last.pk
          /\ c \notin SubmittedIds(last.data.comments)
          /\ comments[c].content = "hi"

\* C10: PostSerializer.update saves the post's fields first and then takes
\* the elements in list order with no rollback: when the lookup of element k
\* raises, k is the first element not found under the post, the post's
\* submitted fields and the writes of the elements before k are stored, and
\* nothing of the elements from k on is; when none raises all are applied
C10_MergeInOrderNoRollback ==
    [][Served("SerializerUpdate") =>
        LET p == last'.pk
            data == last'.data
            k == last'.raised
            list == IF "comments" \in DOMAIN data THEN data.comments ELSE <<>>
            n == IF k = 0 THEN Len(list) ELSE k - 1
            done == SubSeq(list, 1, n)
            fresh == DOMAIN comments' \ DOMAIN comments
        IN  /\ "title" \in DOMAIN data => posts'[p].title = data.title
            /\ k \in 0 .. Len(list)
            /\ k # 0 => /\ "id" \in DOMAIN list[k]
                         /\ list[k].id \notin Visible(p, list, k)
            /\ \A i \in 1 .. n : "id" \in DOMAIN list[i] =>
                 list[i].id \in Visible(p, list, i)
            /\ \A i \in 1 .. n : "id" \in DOMAIN list[i] =>
                 /\ comments'[list[i].id].author = list[i].author
                 /\ comments'[list[i].id].content = list[i].content
                 /\ comments'[list[i].id].post = p
            /\ Cardinality(fresh) = NewCount(done)
            /\ \A c \in fresh :
                 /\ comments'[c].post = p
                 /\ \E i \in 1 .. n : /\ "id" \notin DOMAIN list[i]
                                      /\ comments'[c].author = list[i].author
                                      /\ comments'[c].content = list[i].content
            /\ \A c \in DOMAIN comments :
                 c \notin SubmittedIds(done) =>
                    c \in DOMAIN comments' /\ comments'[c] = comments[c]
    ]_vars

\* the second element's lookup raised after the first element created a
\* comment, and the post carries the submitted title
C10_Witness ==
    /\ last.op = "SerializerUpdate"
    /\ last.raised = 2
    /\ "id" \notin DOMAIN last.data.comments[1]
    /\ "title" \in DOMAIN last.data
    /\ posts[last.pk].title = last.data.title
    /\ \E c \in DOMAIN comments :
          comments[c].post = last.pk /\ comments[c].content = "yo"

\* C1: PUT/PATCH /posts/P/ on a stored post with a comments list upserts
\* the comments: each element with the id of a comment stored under P
\* overwrites that comment's author and content, each element with no id
\* inserts one new comment of parent P with the submitted fields
C1_UpdateRouteUpsertsComments ==
    [][Served("PostUpdate") =>
        \A method \in Methods, body \in PostBodies :
            (/\ PostUpdate(last'.pk, method, body)
             /\ last'.pk \in DOMAIN posts
             /\ PostSerializerIsValid(body, method = "PATCH")
             /\ "comments" \in DOMAIN body
             /\ \A i \in DOMAIN body.comments :
                   "id" \in DOMAIN body.comments[i] =>
                       body.comments[i].id \in CommentQueryset(comments, last'.pk))
            => LET list == body.comments
                   fresh == DOMAIN comments' \ DOMAIN comments
               IN  /\ \A i \in DOMAIN list : "id" \in DOMAIN list[i] =>
                        /\ list[i].id \in DOMAIN comments'
                        /\ comments'[list[i].id].author = list[i].author
                        /\ comments'[list[i].id].content = list[i].content
                   /\ Cardinality(fresh) = NewCount(list)
                   /\ \A c \in fresh :
                        /\ comments'[c].post = last'.pk
                        /\ \E i \in DOMAIN list :
                              /\ "id" \notin DOMAIN list[i]
                              /\ comments'[c].author = list[i].author
                              /\ comments'[c].content = list[i].content
    ]_vars

\* C2: PUT/PATCH /posts/P/ on a stored post whose comments list names an id
\* that is no comment of P is answered with an error, not with success
C2_UpdateRouteFailsOnForeignId ==
    [][Served("PostUpdate") =>
        \A method \in Methods, body \in PostBodies :
            (/\ PostUpdate(last'.pk, method, body)
             /\ last'.pk \in DOMAIN posts
             /\ "comments" \in DOMAIN body
             /\ \E i \in DOMAIN body.comments :
                   /\ "id" \in DOMAIN body.comments[i]
                   /\ body.comments[i].id \notin CommentQueryset(comments, last'.pk))
            => last'.status >= 400
    ]_vars

\* C5: POST /posts/P/comments/ on a stored post with author and content is
\* answered 201 and stores exactly one new comment, of parent P, whether
\* the body has no post field or names another post
C5_CreateForcesUrlPost ==
    [][Served("CommentCreate") =>
        \A body \in CommentBodies :
            (/\ CommentCreate(last'.post_pk, body)
             /\ last'.post_pk \in DOMAIN posts
             /\ {"author", "content"} \subseteq DOMAIN body
             /\ ValidText(body.author, AuthorMaxLength)
             /\ ValidText(body.content, 0)
             /\ "post" \in DOMAIN body => body.post \in DOMAIN posts)
            => LET fresh == DOMAIN comments' \ DOMAIN comments
               IN  /\ last'.status = 201
                   /\ Cardinality(fresh) = 1
                   /\ \A c \in fresh :
                        /\ comments'[c].post = last'.post_pk
                        /\ comments'[c].author = body.author
                        /\ comments'[c].content = body.content
                   /\ \A c \in DOMAIN comments :
                        c \in DOMAIN comments' /\ comments'[c] = comments[c]
    ]_vars

\* C6: POST /posts/X/comments/ with author and content, no post X stored, is
\* answered 404 and the store is as it was
C6_CreateUnderMissingPostIs404 ==
    [][Served("CommentCreate") =>
        \A body \in CommentBodies :
            (/\ CommentCreate(last'.post_pk, body)
             /\ last'.post_pk \notin DOMAIN posts
             /\ {"author", "content"} \subseteq DOMAIN body
             /\ ValidText(body.author, AuthorMaxLength)
             /\ ValidText(body.content, 0))
            => /\ last'.status = 404
               /\ comments' = comments
               /\ posts' = posts
    ]_vars

\* C7: on /posts/P/comments/{id}/ a comment of another parent is answered
\* 404 and left as it was, and after an update answered 200 the comment's
\* parent is still P
C7_CommentStaysUnderUrlPost ==
    [][(now' = now
        /\ last'.op \in {"CommentRetrieve", "CommentUpdate", "CommentDestroy"}) =>
        LET P == last'.post_pk
            c == last'.pk
        IN  /\ (c \in DOMAIN comments /\ comments[c].post # P) =>
                 /\ last'.status = 404
                 /\ comments' = comments
            /\ (last'.op = "CommentUpdate" /\ last'.status = 200) =>
                 comments'[c].post = P
    ]_vars

====
